---- MODULE Spec2Model ----
(***************************************************************************)
(* Verification model of the multi-agent DDPG learning core:               *)
(*   src/src/buffer.py        ReplayBuffer                                 *)
(*   src/src/maddpg.py        MADDPG (coordinator)                         *)
(*   src/refactoring/agent.py Agent                                        *)
(*   src/refactoring/networks.py  checkpoints, critic input width          *)
(*                                                                         *)
(* Floating point values are modelled by integers (finite values only).    *)
(* Numpy arrays that the code allocates with np.zeros are modelled         *)
(* sparsely: a slot that was never written is absent from the function and *)
(* reads as 0.                                                             *)
(*                                                                         *)
(* Specifications:                                                         *)
(*   SpecBuffer      a stand-alone ReplayBuffer of capacity 1..MaxCap      *)
(*   Spec            the coordinator under remember and learn              *)
(*   SpecAgent       the agents under choose_action,                       *)
(*                   update_network_parameters and the optimizer steps     *)
(*                   their owner makes                                     *)
(*   SpecCheckpoint  the agents under save_models and load_models, with    *)
(*                   the checkpoint files on disk                          *)
(*   SpecColumns     the assembly of the critic inputs in learn, as a      *)
(*                   function of n_agents, idx, flag, num_tiles and the    *)
(*                   sampled row                                           *)
(***************************************************************************)
EXTENDS Integers, Sequences, FiniteSets, TLC

(* ------------------------------ bounds -------------------------------- *)
\* largest capacity of a stand-alone ReplayBuffer
MaxCap == 3
\* largest number of store_transition calls on the stand-alone buffer
MaxStores == 5
\* largest batch_size handed to sample_buffer / sample_last_buffer
MaxBatch == 2
\* largest number of MADDPG.remember calls
MaxRemembers == 2
\* largest number of MADDPG.learn calls that pass the long-horizon gate
MaxLearns == 1
\* largest number of optimizer steps made on the networks of the agents
MaxSteps == 1
\* total_eps handed to the constructors (Agent.total_episodes)
TotalEps == 2
\* denominator of the soft-update rates: tau ranges over 0/TauDen .. TauDen/TauDen
TauDen == 2
\* largest number of agents for which the column routing of learn is computed
MaxAgents == 3
\* largest num_tiles handed to learn, and largest extra_players of a critic
MaxTiles == 3
\* largest number of changes made to the checkpoint files on disk
\* (save_models calls and deletions of a file)
MaxDiskOps == 2

(* ------------------------------ helpers ------------------------------- *)
Min(a, b) == IF a < b THEN a ELSE b

\* number of agents the model is configured with (MADDPG(n_agents=...))
n_agents == 2

\* dimensions the model is configured with (MADDPG(input_dims=1, n_actions=1))
input_dims == 1
n_actions == 1

\* One joint step of the environment: the observation, action and reward of
\* agent j (all different, so that a column tells whose value it holds).
ObsOf(j) == 10 * j + 1
ActOf(j) == 10 * j + 2
RewOf(j) == 10 * j + 3

\* the order in which a caller lays out the other agents' columns when it
\* stores a transition on behalf of agent i: ascending index, i left out
Others(num_agents, i) ==
    [k \in 1..(num_agents - 1) |-> IF k - 1 < i THEN k - 1 ELSE k]

\* the arguments of remember / store_transition for the transition of agent i
\* among num_agents agents
TransitionOf(num_agents, i) ==
    [ state |-> ObsOf(i), action |-> ActOf(i), reward |-> RewOf(i),
      others_states |->
          [k \in 1..(num_agents - 1) |-> ObsOf(Others(num_agents, i)[k])],
      others_actions |->
          [k \in 1..(num_agents - 1) |-> ActOf(Others(num_agents, i)[k])] ]

\* The transitions a caller passes to store_transition / remember: one per
\* agent (input_dims = n_actions = 1, so others_* have n_agents-1 columns).
Transitions == { TransitionOf(n_agents, i) : i \in 0..(n_agents - 1) }

\* a row of np.zeros((mem_size, width))
ZeroRow(width) == [k \in 1..width |-> 0]

(* --------------------------- ReplayBuffer ----------------------------- *)
\* ReplayBuffer.__init__: the five arrays are all zero, the counter is 0
ReplayBuffer(max_size) ==
    [ mem_size |-> max_size,
      mem_cntr |-> 0,
      state_memory |-> <<>>,
      action_memory |-> <<>>,
      reward_memory |-> <<>>,
      others_states |-> <<>>,
      others_actions |-> <<>> ]

\* array[index] of an array allocated by np.zeros
Row(array, index, zero) == IF index \in DOMAIN array THEN array[index] ELSE zero

\* array[index] = value
Put(array, index, value) ==
    [j \in (DOMAIN array) \cup {index} |-> IF j = index THEN value ELSE array[j]]

\* the slot store_transition writes
StoreIndexWrong(buf) == Min(buf.mem_cntr, buf.mem_size - 1)
StoreIndex(buf) == buf.mem_cntr % buf.mem_size

\* (a counter that stops at the capacity)
store_transition_saturating(buf, t) ==
    LET index == StoreIndex(buf) IN
    [ buf EXCEPT
        !.state_memory = Put(@, index, t.state),
        !.action_memory = Put(@, index, t.action),
        !.reward_memory = Put(@, index, t.reward),
        !.mem_cntr = Min(@ + 1, buf.mem_size),
        !.others_states = Put(@, index, t.others_states),
        !.others_actions = Put(@, index, t.others_actions) ]
store_transition(buf, t) ==
    LET index == StoreIndex(buf) IN
    [ buf EXCEPT
        !.state_memory = Put(@, index, t.state),
        !.action_memory = Put(@, index, t.action),
        !.reward_memory = Put(@, index, t.reward),
        !.mem_cntr = @ + 1,
        !.others_states = Put(@, index, t.others_states),
        !.others_actions = Put(@, index, t.others_actions) ]

\* max_mem of sample_buffer
MaxMemWrong(buf) == buf.mem_size
MaxMem(buf) == Min(buf.mem_cntr, buf.mem_size)

\* the outcomes of np.random.choice(max_mem, batch_size): batch_size indices
\* below max_mem, drawn with replacement (no outcome when max_mem = 0: the
\* call raises)
Choice(max_mem, size) == [1..size -> 0..(max_mem - 1)]

\* the rows of slots i, as one record per row
Entry(buf, i) ==
    [ state |-> Row(buf.state_memory, i, 0),
      action |-> Row(buf.action_memory, i, 0),
      reward |-> Row(buf.reward_memory, i, 0),
      others_states |-> Row(buf.others_states, i, ZeroRow(n_agents - 1)),
      others_actions |-> Row(buf.others_actions, i, ZeroRow(n_agents - 1)) ]

\* sample_buffer, for one outcome `batch` of the random draw: array[batch]
sample_buffer(buf, batch) == [k \in DOMAIN batch |-> Entry(buf, batch[k])]

\* array[lo:hi] of an array with `size` rows, 0 <= lo: numpy clips both ends
\* to the array and yields the rows lo .. hi-1 that exist
Slice(buf, lo, hi) ==
    LET l == Min(lo, buf.mem_size)
        h == Min(hi, buf.mem_size)
    IN  [k \in 1..(h - l) |-> Entry(buf, l + k - 1)]

sample_last_buffer(buf, batch_size) ==
    LET bs == IF buf.mem_cntr < batch_size THEN buf.mem_cntr ELSE batch_size
    IN  Slice(buf, buf.mem_cntr - bs, buf.mem_cntr)

(* ------------------------------ Agent --------------------------------- *)
\* fixed-point image of 1.0 for actions, observations and noise samples; a
\* multiple of TotalEps so that noise * decay is exact
Unit == 2 * TotalEps

\* The parameter tensors of a network, each abstracted to one number.
ParamNames == {"w", "b"}

\* values an optimizer step (or the random initialisation) can leave in a
\* network
ParamSpace == { [w |-> 0, b |-> Unit], [w |-> Unit, b |-> 0] }

Nets == {"actor", "critic", "target_actor", "target_critic"}

\* what the two optimizer steps of one pass of learn can leave in the critic
\* and in the actor
StepOutcomes ==
    { [critic |-> [w |-> 0, b |-> Unit], actor |-> [w |-> Unit, b |-> 0]],
      [critic |-> [w |-> Unit, b |-> 0], actor |-> [w |-> 0, b |-> Unit]] }

\* T.sigmoid on the fixed-point grid: monotone, 1/2 at 0, saturating at 0 and 1
Sigmoid(x) ==
    IF x <= -Unit THEN 0
    ELSE IF x >= Unit THEN Unit
    ELSE (x + Unit) \div 2

\* ActorNetwork.forward, the layers collapsed into one affine map
ActorForward(theta, state) == Sigmoid(theta.w * state + theta.b)

\* Tensor.clamp(lo, hi)
\* (a clamp that forgets the lower end)
ClampUpperOnly(x, lo, hi) == IF x > hi THEN hi ELSE x
Clamp(x, lo, hi) == IF x < lo THEN lo ELSE IF x > hi THEN hi ELSE x

\* tau * param.data + (1 - tau) * target_param.data, tau = tau_num / TauDen;
\* the integer division stands for the rounding of the float result
SoftUpdateSwapped(param, target_param, tau_num) ==
    (tau_num * target_param + (TauDen - tau_num) * param) \div TauDen
SoftUpdate(param, target_param, tau_num) ==
    (tau_num * param + (TauDen - tau_num) * target_param) \div TauDen

\* the argument tau of update_network_parameters: None, or a rate
TauNone == [none |-> TRUE]
TauOf(tau_num) == [none |-> FALSE, tau |-> tau_num]

\* Agent.update_network_parameters(tau)
update_network_parameters(agent, tau_arg) ==
    LET tau == IF tau_arg.none THEN agent.tau ELSE tau_arg.tau IN
    [ agent EXCEPT
        !.target_critic =
            [p \in ParamNames |-> SoftUpdate(agent.critic[p], agent.target_critic[p], tau)],
        !.target_actor =
            [p \in ParamNames |-> SoftUpdate(agent.actor[p], agent.target_actor[p], tau)] ]

\* the four freshly initialised networks of agent i, before the constructor's
\* hard copy: live and target networks are initialised independently (one
\* outcome of the random initialisation, in which every target network
\* starts different from its live network and the agents differ)
FreshNetworks(i) ==
    LET one == [w |-> 0, b |-> Unit]
        two == [w |-> Unit, b |-> 0]
    IN  IF i % 2 = 0
        THEN [actor |-> one, critic |-> two, target_actor |-> two, target_critic |-> one]
        ELSE [actor |-> two, critic |-> one, target_actor |-> one, target_critic |-> two]

\* Agent.__init__
\* (noise_std is kept in the fixed-point scale of actions)
Agent(i, tau, batch_size, total_eps) ==
    LET fresh == FreshNetworks(i)
        raw == [ tau |-> tau,
                 batch_size |-> batch_size,
                 total_episodes |-> total_eps,
                 noise_std |-> Unit \div 2,
                 actor |-> fresh.actor,
                 critic |-> fresh.critic,
                 target_actor |-> fresh.target_actor,
                 target_critic |-> fresh.target_critic,
                 mode |-> [n \in Nets |-> "train"] ]
    IN  update_network_parameters(raw, TauOf(TauDen))

\* outcomes of np.random.normal(0, noise_std) the model draws
NoiseSamples(agent) == {-2 * agent.noise_std, 0, agent.noise_std}

\* decay of choose_action, as the numerator of a fraction over total_episodes
Decay(agent, episode) == agent.total_episodes - episode

\* Agent.choose_action for one outcome `noise` of np.random.normal:
\* the agent after the call, the returned action and the noise term added
choose_action_noisy(agent, observation, episode, evaluation, noise) ==
    LET out == ActorForward(agent.actor, observation)
        term == (noise * Decay(agent, episode)) \div agent.total_episodes
    IN  [ agent |-> [agent EXCEPT !.mode.actor = "train"],
          forward_mode |-> "eval",
          added |-> term,
          action |-> Clamp(out + term, 0, Unit) ]
choose_action(agent, observation, episode, evaluation, noise) ==
    LET eval_agent == [agent EXCEPT !.mode.actor = "eval"]
        out == ActorForward(eval_agent.actor, observation)
        term == (noise * Decay(agent, episode)) \div agent.total_episodes
    IN  [ agent |-> [eval_agent EXCEPT !.mode.actor = "train"],
          forward_mode |-> eval_agent.mode.actor,
          added |-> IF evaluation THEN 0 ELSE term,
          action |-> IF evaluation THEN out ELSE Clamp(out + term, 0, Unit) ]

(* ---------------------------- checkpoints ----------------------------- *)
\* chkpt_dir of the network classes
chkpt_dir(net) ==
    IF net \in {"actor", "target_actor"} THEN "models/actor" ELSE "models/critic"

\* f'{self.checkpoint_file}_{name}' with checkpoint_file = chkpt_dir/<role>
CheckpointPath(net, name) == <<chkpt_dir(net), net, name>>

\* the order in which save_models and load_models visit the networks
NetworkOrder == <<"actor", "target_actor", "critic", "target_critic">>

\* Network.save_checkpoint(name) of network `net` of `agent`: the disk after it
save_checkpoint(disk, agent, net, name) ==
    Put(disk, CheckpointPath(net, name), agent[net])

\* Network.load_checkpoint(name): T.load raises when the file is missing,
\* else load_state_dict replaces the parameters by the saved ones
\* (a loader that goes on with freshly initialised parameters)
load_checkpoint_fallback(disk, agent, net, name) ==
    IF CheckpointPath(net, name) \in DOMAIN disk
    THEN [raised |-> FALSE, agent |-> [agent EXCEPT ![net] = disk[CheckpointPath(net, name)]]]
    ELSE [raised |-> FALSE, agent |-> [agent EXCEPT ![net] = [w |-> 0, b |-> 0]]]
load_checkpoint(disk, agent, net, name) ==
    IF CheckpointPath(net, name) \in DOMAIN disk
    THEN [raised |-> FALSE, agent |-> [agent EXCEPT ![net] = disk[CheckpointPath(net, name)]]]
    ELSE [raised |-> TRUE, agent |-> agent]

\* Agent.save_models(name): the disk after the first k networks were saved
RECURSIVE SaveFirst(_, _, _, _)
SaveFirst(disk, agent, name, k) ==
    IF k = 0 THEN disk
    ELSE save_checkpoint(SaveFirst(disk, agent, name, k - 1), agent,
                         NetworkOrder[k], name)
save_models(disk, agent, name) == SaveFirst(disk, agent, name, Len(NetworkOrder))

\* Agent.load_models(name): the agent after the first k networks were
\* visited; the loop ends at the first load that raises
RECURSIVE LoadFirst(_, _, _, _)
LoadFirst(disk, agent, name, k) ==
    IF k = 0 THEN [raised |-> FALSE, agent |-> agent]
    ELSE LET before == LoadFirst(disk, agent, name, k - 1) IN
         IF before.raised THEN before
         ELSE load_checkpoint(disk, before.agent, NetworkOrder[k], name)
load_models(disk, agent, name) == LoadFirst(disk, agent, name, Len(NetworkOrder))

(* ------------------------------ MADDPG -------------------------------- *)
\* capacity of the long-horizon store
max_size == 1000000

\* MADDPG.remember: the two stores after the call
remember_keep_first(memory, short_memory, t) ==
    [ memory |-> store_transition(memory, t),
      short_memory |-> IF short_memory.mem_cntr = 0
                       THEN store_transition(short_memory, t)
                       ELSE [short_memory EXCEPT !.mem_cntr = @ + 1] ]
\* (only the long-horizon store is written)
remember_long_only(memory, short_memory, t) ==
    [ memory |-> store_transition(memory, t),
      short_memory |-> short_memory ]
remember(memory, short_memory, t) ==
    [ memory |-> store_transition(memory, t),
      short_memory |-> store_transition(short_memory, t) ]

\* the gates of learn: a pass runs unless  mem_cntr < batch_size
LongGateAlways(memory, batch_size) == TRUE
LongGateOffByOne(memory, batch_size) == ~(memory.mem_cntr + 1 < batch_size)
LongGate(memory, batch_size) == ~(memory.mem_cntr < batch_size)

ShortGateStrict(short_memory, batch_size) == ~(short_memory.mem_cntr <= batch_size)
ShortGate(short_memory, batch_size) == ~(short_memory.mem_cntr < batch_size)

\* list(range(n)), 0-based values in a 1-based sequence
Range(n) == [k \in 1..n |-> k - 1]

\* list.remove(x): the list without the first occurrence of x
ListRemove(list, x) ==
    LET at == CHOOSE i \in 1..Len(list) :
                 list[i] = x /\ \A j \in 1..(i - 1) : list[j] # x
    IN  SubSeq(list, 1, at - 1) \o SubSeq(list, at + 1, Len(list))

\* indexes of learn: the agents whose target actors are consulted, in the
\* order of the columns
\* (the list with idx left in)
indexes_unremoved(num_agents, idx) == Range(num_agents)
indexes(num_agents, idx) == ListRemove(Range(num_agents), idx)

\* agents[j].target_actor.forward(column): the output is kept symbolic, as
\* the agent whose target actor ran and the column it was given
TargetActorForward(j, i, column) == [agent |-> j, column |-> i, input |-> column]

\* the loop over the columns of one sampled row: column i of others_states
\* goes through the target actor of agents[indexes[i]]; T.cat keeps the
\* order of the loop
OthersTargetActions(num_agents, idx, others_states) ==
    LET num_columns == num_agents - 1
        ix == indexes(num_agents, idx)
    IN  [i \in 1..num_columns |-> TargetActorForward(ix[i], i, others_states[i])]

\* np.tile(column 0, (1, num_tiles)) appended by np.concatenate: the columns
\* followed by num_tiles copies of column 0 (none when num_tiles = 0)
Tile(columns, num_tiles) == columns \o [k \in 1..num_tiles |-> columns[1]]

\* T.cat([column 0] * num_tiles, dim=1) raises on an empty list of tensors
CatRaises(num_tiles) == num_tiles = 0

\* width of T.cat([state, action, others_states, others_actions], dim=1)
CatWidth(others_states, others_actions) ==
    input_dims + n_actions + Len(others_states) * input_dims
                           + Len(others_actions) * n_actions

\* CriticNetwork.__init__: the width of the first layer
shape_of_input(num_agents, flag, extra) ==
    IF flag
    THEN (num_agents + extra) * (input_dims + n_actions)
    ELSE num_agents * (input_dims + n_actions)

\* What one pass of learn(idx, flag, num_tiles) assembles from one sampled
\* row for its three critic forwards; with flag set and num_tiles = 0 the pass
\* raises when it widens the target actions, after the loop over the columns.
CriticInputs(num_agents, idx, flag, num_tiles, row) ==
    LET others_states == IF flag THEN Tile(row.others_states, num_tiles)
                                 ELSE row.others_states
        others_actions == IF flag THEN Tile(row.others_actions, num_tiles)
                                  ELSE row.others_actions
        target_actions_list == OthersTargetActions(num_agents, idx, others_states)
        others_target_actions == IF flag THEN Tile(target_actions_list, num_tiles)
                                         ELSE target_actions_list
        mus_list == OthersTargetActions(num_agents, idx, others_states)
        others_mus == IF flag THEN Tile(mus_list, num_tiles) ELSE mus_list
    IN  IF flag /\ CatRaises(num_tiles)
        THEN [ raised |-> TRUE,
               others_states |-> others_states,
               others_actions |-> others_actions,
               target_actions_list |-> target_actions_list ]
        ELSE [ raised |-> FALSE,
               others_states |-> others_states,
               others_actions |-> others_actions,
               target_actions_list |-> target_actions_list,
               others_target_actions |-> others_target_actions,
               mus_list |-> mus_list,
               others_mus |-> others_mus,
               target_width |-> CatWidth(others_states, others_target_actions),
               critic_width |-> CatWidth(others_states, others_actions),
               loss_width |-> CatWidth(others_states, others_mus) ]

\* A call of learn in progress: the agents of the coordinator and, as
\* history, the events of the call so far.
Run(agents) == [agents |-> agents, events |-> <<>>]

Event(run, e) == [run EXCEPT !.events = Append(@, e)]

\* agent = self.agents[idx]: what learn does to `agent` it does to entry idx
\* of the list, and to no other entry
\* (a list whose entries are all the same object)
WithAgentShared(run, idx, agent) ==
    [run EXCEPT !.agents = [j \in DOMAIN run.agents |-> agent]]
WithAgent(run, idx, agent) == [run EXCEPT !.agents[idx] = agent]

\* network.eval() / network.train() on a network of agent idx
SetMode(run, idx, net, mode) ==
    WithAgent(run, idx, [run.agents[idx] EXCEPT !.mode[net] = mode])

\* self.agents[j].<net>.forward(...): recorded with the parameters and the
\* mode the network has at that point; `estimate` tells a forward that only
\* estimates a value or an action from one whose network is being updated
Forward(run, j, net, estimate) ==
    Event(run, [ev |-> "forward", agent |-> j, net |-> net,
                params |-> run.agents[j][net], mode |-> run.agents[j].mode[net],
                estimate |-> estimate, column |-> 0, inputs |-> <<>>])

\* the loop over the columns of others_states, on a batch of sampled rows:
\* column i goes through the target actor of agents[indexes[i]]
OthersForward(run, idx, rows) ==
    LET ix == indexes(n_agents, idx) IN
    [run EXCEPT !.events = @ \o
        [i \in 1..(n_agents - 1) |->
            [ev |-> "forward", agent |-> ix[i], net |-> "target_actor",
             params |-> run.agents[ix[i]].target_actor,
             mode |-> run.agents[ix[i]].mode.target_actor,
             estimate |-> TRUE, column |-> i,
             inputs |-> [r \in DOMAIN rows |->
                 OthersTargetActions(n_agents, idx, rows[r].others_states)[i].input]]]]

\* optimizer.step() on a network of agent idx, leaving it with `out`
Step(run, idx, net, out) ==
    WithAgent(Event(run, [ev |-> "step", net |-> net,
                          mode |-> run.agents[idx].mode[net],
                          critic_mode |-> run.agents[idx].mode.critic]),
              idx, [run.agents[idx] EXCEPT ![net] = out])

\* the sampling that opens a pass
SampleEvent(run, store) == Event(run, [ev |-> "sample", store |-> store])

\* from the mode switches to the critic's optimizer step
CriticUpdate(run, idx, rows, critic_out) ==
    LET r1 == SetMode(SetMode(SetMode(run, idx, "target_actor", "eval"),
                              idx, "target_critic", "eval"),
                      idx, "critic", "eval")
        r2 == Forward(r1, idx, "target_actor", TRUE)
        r3 == OthersForward(r2, idx, rows)
        r4 == Forward(r3, idx, "target_critic", TRUE)
        r5 == Forward(r4, idx, "critic", FALSE)
        r6 == SetMode(r5, idx, "critic", "train")
    IN  Step(r6, idx, "critic", critic_out)

\* from critic.eval() to the actor's optimizer step
ActorUpdate(run, idx, rows, actor_out) ==
    LET r1 == SetMode(run, idx, "critic", "eval")
        r2 == Forward(r1, idx, "actor", FALSE)
        r3 == OthersForward(r2, idx, rows)
        r4 == SetMode(r3, idx, "actor", "train")
        r5 == Forward(r4, idx, "critic", TRUE)
    IN  Step(r5, idx, "actor", actor_out)

\* agent.update_network_parameters()
TargetUpdate(run, idx) ==
    LET after == update_network_parameters(run.agents[idx], TauNone) IN
    WithAgent(Event(run, [ev |-> "soft_update",
                          target_actor |-> after.target_actor,
                          target_critic |-> after.target_critic]),
              idx, after)

\* One pass of learn on agent idx over the sampled rows: the target and the
\* critic's step (whose result is critic_out), the actor's step (whose
\* result is actor_out), the soft update.
\* (a pass that blends the targets first)
LearnPassSoftFirst(run, idx, store, rows, critic_out, actor_out) ==
    ActorUpdate(
        CriticUpdate(TargetUpdate(SampleEvent(run, store), idx),
                     idx, rows, critic_out),
        idx, rows, actor_out)
LearnPass(run, idx, store, rows, critic_out, actor_out) ==
    TargetUpdate(
        ActorUpdate(
            CriticUpdate(SampleEvent(run, store), idx, rows, critic_out),
            idx, rows, actor_out),
        idx)

(* ------------------------------ state --------------------------------- *)
VARIABLES
    buffer,       \* a stand-alone ReplayBuffer
    buf_log,      \* history: every transition stored in `buffer`, in order
    buf_out,      \* history: the sampling call made on `buffer` since the last
                  \* store, and its result
    batch_size,   \* MADDPG.batch_size
    memory,       \* MADDPG.memory
    short_memory, \* MADDPG.short_memory
    agents,       \* MADDPG.agents, indexed 0 .. n_agents-1
    mem_log,      \* history: every transition passed to remember, in order
    n_learn,      \* history: number of learn calls that passed the long gate
    n_step,       \* history: number of optimizer steps made outside learn
    files,        \* the checkpoint files on disk: path -> saved state_dict
    n_disk,       \* history: number of changes made to `files`
    last          \* history: the last coordinator/agent call and its result

bufvars == <<buffer, buf_log, buf_out>>
coordvars == <<batch_size, memory, short_memory, agents, mem_log, n_learn,
               n_step, last>>
diskvars == <<files, n_disk>>
vars == <<buffer, buf_log, buf_out, batch_size, memory, short_memory, agents,
          mem_log, n_learn, n_step, files, n_disk, last>>

NoCall == [op |-> "none"]

\* a disk without checkpoint files
NoFiles == [path \in {} |-> NoCall]

AgentIds == 0..(n_agents - 1)
Taus == 0..TauDen
Observations == {0, Unit \div 2}
Episodes == {0, TotalEps, 2 * TotalEps}

\* MADDPG.__init__(tau, BS, total_eps)
MADDPG(tau, BS, total_eps) ==
    /\ agents = [i \in AgentIds |-> Agent(i, tau, BS, total_eps)]
    /\ batch_size = BS
    /\ memory = ReplayBuffer(max_size)
    /\ short_memory = ReplayBuffer(1)
    /\ mem_log = <<>>
    /\ n_learn = 0
    /\ n_step = 0
    /\ last = NoCall

\* a stand-alone buffer of any capacity, beside a default coordinator
InitBuffer ==
    /\ \E C \in 1..MaxCap : buffer = ReplayBuffer(C)
    /\ buf_log = <<>>
    /\ buf_out = NoCall
    /\ files = NoFiles
    /\ n_disk = 0
    /\ MADDPG(1, 1, TotalEps)

\* a coordinator of any batch size, with soft-update rate 1/TauDen
Init ==
    /\ buffer = ReplayBuffer(1)
    /\ buf_log = <<>>
    /\ buf_out = NoCall
    /\ files = NoFiles
    /\ n_disk = 0
    /\ \E BS \in 1..MaxBatch : MADDPG(1, BS, TotalEps)

(* ----------------------- stand-alone buffer ops ----------------------- *)
StoreTransition(t) ==
    /\ buffer.mem_cntr < MaxStores
    /\ buffer' = store_transition(buffer, t)
    /\ buf_log' = Append(buf_log, t)
    /\ buf_out' = NoCall
    /\ UNCHANGED coordvars
    /\ UNCHANGED diskvars

SampleBuffer(bs, batch) ==
    /\ buffer' = buffer
    /\ buf_out' = [op |-> "sample_buffer", batch_size |-> bs,
                   batch |-> batch, rows |-> sample_buffer(buffer, batch)]
    /\ UNCHANGED buf_log
    /\ UNCHANGED coordvars
    /\ UNCHANGED diskvars

SampleLastBuffer(bs) ==
    /\ buffer' = buffer
    /\ buf_out' = [op |-> "sample_last_buffer", batch_size |-> bs,
                   rows |-> sample_last_buffer(buffer, bs)]
    /\ UNCHANGED buf_log
    /\ UNCHANGED coordvars
    /\ UNCHANGED diskvars

NextBuffer ==
    \/ \E t \in Transitions : StoreTransition(t)
    \/ \E bs \in 1..MaxBatch : \E batch \in Choice(MaxMem(buffer), bs) :
          SampleBuffer(bs, batch)
    \/ \E bs \in 1..MaxBatch : SampleLastBuffer(bs)

SpecBuffer == InitBuffer /\ [][NextBuffer]_vars

(* -------------------------- coordinator ops --------------------------- *)
\* MADDPG.remember(state, action, reward, others_states, others_actions)
Remember(t) ==
    /\ Len(mem_log) < MaxRemembers
    /\ LET r == remember(memory, short_memory, t) IN
          /\ memory' = r.memory
          /\ short_memory' = r.short_memory
    /\ mem_log' = Append(mem_log, t)
    /\ last' = [op |-> "remember"]
    /\ UNCHANGED <<batch_size, agents, n_learn, n_step>>
    /\ UNCHANGED bufvars
    /\ UNCHANGED diskvars

NotRun == [ran |-> FALSE]

\* MADDPG.learn(idx), with the default flag=False: the long-horizon pass,
\* then the short-horizon pass
Learn(idx) ==
    /\ UNCHANGED <<batch_size, memory, short_memory, mem_log, n_step>>
    /\ UNCHANGED bufvars
    /\ UNCHANGED diskvars
    /\ IF ~LongGate(memory, batch_size)
       THEN /\ agents' = agents
            /\ n_learn' = n_learn
            /\ last' = [op |-> "learn", idx |-> idx, before |-> agents,
                        long |-> NotRun, short |-> NotRun, events |-> <<>>]
       ELSE /\ n_learn < MaxLearns
            /\ n_learn' = n_learn + 1
            /\ \E batch1 \in Choice(MaxMem(memory), batch_size) :
               \E out1 \in StepOutcomes :
                 LET rows1 == sample_buffer(memory, batch1)
                     run1 == LearnPass(Run(agents), idx, "memory", rows1,
                                       out1.critic, out1.actor)
                     long == [ran |-> TRUE, batch |-> batch1, rows |-> rows1]
                 IN  IF ~ShortGate(short_memory, batch_size)
                     THEN /\ agents' = run1.agents
                          /\ last' = [op |-> "learn", idx |-> idx, before |-> agents,
                                      long |-> long, short |-> NotRun,
                                      events |-> run1.events]
                     ELSE \E batch2 \in Choice(MaxMem(short_memory), batch_size) :
                          \E out2 \in StepOutcomes :
                            LET rows2 == sample_buffer(short_memory, batch2)
                                run2 == LearnPass(run1, idx, "short_memory",
                                                  rows2, out2.critic, out2.actor)
                            IN  /\ agents' = run2.agents
                                /\ last' = [op |-> "learn", idx |-> idx,
                                            before |-> agents, long |-> long,
                                            short |-> [ran |-> TRUE, batch |-> batch2,
                                                       rows |-> rows2],
                                            events |-> run2.events]

Next ==
    \/ \E t \in Transitions : Remember(t)
    \/ \E idx \in AgentIds : Learn(idx)

\* a coordinator of any batch size, under remember and learn
Spec == Init /\ [][Next]_vars

(* ----------------------------- agent ops ------------------------------ *)
\* Agent.choose_action(observation, episode, evaluation) on agent i; `noise`
\* is what np.random.normal yields when the call draws it
ChooseAction(i, observation, episode, evaluation, noise) ==
    /\ LET r == choose_action(agents[i], observation, episode, evaluation, noise) IN
          /\ agents' = [agents EXCEPT ![i] = r.agent]
          /\ last' = [op |-> "choose_action", idx |-> i, before |-> agents[i],
                      observation |-> observation, episode |-> episode,
                      evaluation |-> evaluation,
                      noise |-> IF evaluation THEN 0 ELSE noise,
                      forward_mode |-> r.forward_mode,
                      added |-> r.added, action |-> r.action]
    /\ UNCHANGED <<batch_size, memory, short_memory, mem_log, n_learn, n_step>>
    /\ UNCHANGED bufvars
    /\ UNCHANGED diskvars

\* Agent.update_network_parameters(tau) on agent i
UpdateNetworkParameters(i, tau_arg) ==
    /\ agents' = [agents EXCEPT ![i] = update_network_parameters(agents[i], tau_arg)]
    /\ last' = [op |-> "update_network_parameters", idx |-> i,
                before |-> agents[i], tau_arg |-> tau_arg]
    /\ UNCHANGED <<batch_size, memory, short_memory, mem_log, n_learn, n_step>>
    /\ UNCHANGED bufvars
    /\ UNCHANGED diskvars

\* agent.critic.optimizer.step() / agent.actor.optimizer.step(), made on the
\* agent's networks by its owner: the network is left with any parameters
OptimizerStep(i, net, out) ==
    /\ n_step < MaxSteps
    /\ n_step' = n_step + 1
    /\ agents' = [agents EXCEPT ![i][net] = out]
    /\ last' = [op |-> "optimizer_step", idx |-> i, net |-> net]
    /\ UNCHANGED <<batch_size, memory, short_memory, mem_log, n_learn>>
    /\ UNCHANGED bufvars
    /\ UNCHANGED diskvars

NextAgent ==
    \/ \E i \in AgentIds : \E o \in Observations : \E e \in Episodes :
       \E ev \in BOOLEAN : \E z \in NoiseSamples(agents[i]) :
          ChooseAction(i, o, e, ev, z)
    \/ \E i \in AgentIds : \E tau_arg \in {TauNone} \cup {TauOf(n) : n \in Taus} :
          UpdateNetworkParameters(i, tau_arg)
    \/ \E i \in AgentIds : \E net \in {"actor", "critic"} : \E out \in ParamSpace :
          OptimizerStep(i, net, out)

\* the agents of a coordinator of any soft-update rate, under their own
\* methods and the optimizer steps of their owner
InitAgent ==
    /\ buffer = ReplayBuffer(1)
    /\ buf_log = <<>>
    /\ buf_out = NoCall
    /\ files = NoFiles
    /\ n_disk = 0
    /\ \E tau \in Taus : MADDPG(tau, 1, TotalEps)

SpecAgent == InitAgent /\ [][NextAgent]_vars

(* ---------------------------- checkpoint ops -------------------------- *)
\* the checkpoint identifiers callers use
Tags == {"ep1", "ep2"}

\* Agent.save_models(name) on agent i
SaveModels(i, name) ==
    /\ n_disk < MaxDiskOps
    /\ n_disk' = n_disk + 1
    /\ files' = save_models(files, agents[i], name)
    /\ last' = [op |-> "save_models", idx |-> i, name |-> name]
    /\ UNCHANGED <<batch_size, memory, short_memory, agents, mem_log, n_learn, n_step>>
    /\ UNCHANGED bufvars

\* Agent.load_models(name) on agent i; when a load raises, the networks
\* loaded before it stay loaded
LoadModels(i, name) ==
    /\ LET r == load_models(files, agents[i], name) IN
          /\ agents' = [agents EXCEPT ![i] = r.agent]
          /\ last' = [op |-> "load_models", idx |-> i, name |-> name,
                      before |-> agents[i], raised |-> r.raised]
    /\ UNCHANGED <<batch_size, memory, short_memory, mem_log, n_learn, n_step>>
    /\ UNCHANGED bufvars
    /\ UNCHANGED diskvars

\* a checkpoint file is deleted from the disk (by anyone)
RemoveCheckpoint(path) ==
    /\ n_disk < MaxDiskOps
    /\ n_disk' = n_disk + 1
    /\ files' = [q \in (DOMAIN files) \ {path} |-> files[q]]
    /\ last' = [op |-> "remove", path |-> path]
    /\ UNCHANGED <<batch_size, memory, short_memory, agents, mem_log, n_learn, n_step>>
    /\ UNCHANGED bufvars

NextCheckpoint ==
    \/ \E i \in AgentIds : \E name \in Tags : SaveModels(i, name)
    \/ \E i \in AgentIds : \E name \in Tags : LoadModels(i, name)
    \/ \E path \in DOMAIN files : RemoveCheckpoint(path)

\* the agents of a default coordinator and their checkpoint files
InitCheckpoint ==
    /\ buffer = ReplayBuffer(1)
    /\ buf_log = <<>>
    /\ buf_out = NoCall
    /\ files = NoFiles
    /\ n_disk = 0
    /\ MADDPG(1, 1, TotalEps)

SpecCheckpoint == InitCheckpoint /\ [][NextCheckpoint]_vars

(* --------------------------- column routing --------------------------- *)
\* The part of learn(idx, flag, num_tiles) that assembles the critic inputs,
\* for a coordinator of num_agents agents and one sampled row, which was
\* stored on behalf of agent `owner`.
LearnColumns(num_agents, idx, flag, num_tiles, owner) ==
    /\ last' = [op |-> "learn_columns", num_agents |-> num_agents, idx |-> idx,
                flag |-> flag, num_tiles |-> num_tiles,
                row |-> TransitionOf(num_agents, owner),
                out |-> CriticInputs(num_agents, idx, flag, num_tiles,
                                     TransitionOf(num_agents, owner))]
    /\ UNCHANGED <<batch_size, memory, short_memory, agents, mem_log, n_learn, n_step>>
    /\ UNCHANGED bufvars
    /\ UNCHANGED diskvars

NextColumns ==
    \E num_agents \in 2..MaxAgents :
    \E idx \in 0..(num_agents - 1) : \E owner \in 0..(num_agents - 1) :
    \E flag \in BOOLEAN : \E num_tiles \in 0..MaxTiles :
        LearnColumns(num_agents, idx, flag, num_tiles, owner)

\* the column assembly of learn as a function of its inputs, for 2..MaxAgents
\* agents
SpecColumns == Init /\ [][NextColumns]_vars

(* ====================== claims: ReplayBuffer ========================== *)
\* the write number (0-based) of the last store that went to slot i, among
\* K stores into a buffer of capacity C
Writes(i, K, C) == {n \in 0..(K - 1) : n % C = i}
LastWrite(i, K, C) ==
    CHOOSE n \in Writes(i, K, C) : \A m \in Writes(i, K, C) : m <= n

Unwritten(buf, i) ==
    /\ i \notin DOMAIN buf.state_memory
    /\ i \notin DOMAIN buf.action_memory
    /\ i \notin DOMAIN buf.reward_memory
    /\ i \notin DOMAIN buf.others_states
    /\ i \notin DOMAIN buf.others_actions

C1_State ==
    LET K == Len(buf_log)
        C == buffer.mem_size
    IN  /\ buffer.mem_cntr = K
        /\ \A i \in 0..(C - 1) :
              IF Writes(i, K, C) = {}
              THEN Unwritten(buffer, i)
              ELSE /\ Entry(buffer, i) = buf_log[LastWrite(i, K, C) + 1]
                   /\ LastWrite(i, K, C) >= K - C

C1_Step ==
    /\ buffer'.mem_cntr >= buffer.mem_cntr
    /\ buffer'.mem_size = buffer.mem_size
    /\ buf_log' # buf_log =>
          LET k == buffer.mem_cntr
              C == buffer.mem_size
          IN  /\ buffer'.mem_cntr = k + 1
              /\ Entry(buffer', k % C) = buf_log'[Len(buf_log')]
              /\ \A i \in 0..(C - 1) :
                    i # k % C => Entry(buffer', i) = Entry(buffer, i)

\* C1: the k-th store writes slot k mod C and raises mem_cntr from k to k+1;
\* no operation decreases or resets mem_cntr; after K stores slot i holds the
\* transition of the largest write number n < K with n mod C = i, and no
\* transition of write number below K - C is left.
C1_StoreWrapsAndCounts == [](C1_State) /\ [][C1_Step]_vars

\* C1 witness: a capacity-2 buffer after five stores (two wrap-arounds),
\* with different transitions written to the same slot
C1_Witness ==
    /\ buffer.mem_size = 2
    /\ buffer.mem_cntr = 5
    /\ buf_log[5] # buf_log[3]
    /\ buf_log[4] # buf_log[5]

\* C2 (as claimed): after K >= 1 stores sample_last_buffer(b) returns exactly
\* the last min(K, b) stored transitions in insertion order, also when K > C.
C2_LastBufferReturnsLastStored ==
    buf_out.op = "sample_last_buffer" =>
        LET K == Len(buf_log)
            n == Min(K, buf_out.batch_size)
        IN  K >= 1 => buf_out.rows = [k \in 1..n |-> buf_log[K - n + k]]

\* C3: every index drawn by sample_buffer lies in [0, min(K, C)), so every
\* returned row is a written slot holding one of the last min(K, C) stored
\* transitions; indices may repeat.
C3_SampleWithinValidRange ==
    buf_out.op = "sample_buffer" =>
        LET K == Len(buf_log)
            C == buffer.mem_size
            live == Min(K, C)
        IN  /\ K >= 1
            /\ Len(buf_out.rows) = buf_out.batch_size
            /\ \A k \in 1..buf_out.batch_size :
                  /\ buf_out.batch[k] \in 0..(live - 1)
                  /\ ~Unwritten(buffer, buf_out.batch[k])
                  /\ buf_out.rows[k] = Entry(buffer, buf_out.batch[k])
                  /\ \E n \in (K - live)..(K - 1) :
                        /\ n % C = buf_out.batch[k]
                        /\ buf_out.rows[k] = buf_log[n + 1]

\* C3 witness: after wrap-around, a batch of two that draws the same slot twice
C3_Witness ==
    /\ buf_out.op = "sample_buffer"
    /\ Len(buf_log) > buffer.mem_size
    /\ buffer.mem_size >= 2
    /\ buf_out.batch_size = 2
    /\ buf_out.batch[1] = buf_out.batch[2]

(* ======================= claims: coordinator ========================== *)
Latest == mem_log[Len(mem_log)]

\* C4: after one or more remember calls the capacity-1 short_memory holds
\* exactly the transition of the most recent call (all five fields), and that
\* transition is the most recently written entry of the long memory.
C4_ShortMemoryHoldsLatest ==
    Len(mem_log) >= 1 =>
        /\ short_memory.mem_size = 1
        /\ ~Unwritten(short_memory, 0)
        /\ Entry(short_memory, 0) = Latest
        /\ Entry(memory, (memory.mem_cntr - 1) % memory.mem_size) = Latest

\* C4 witness: a second remember, of a different transition, was just made
C4_Witness ==
    /\ last.op = "remember"
    /\ Len(mem_log) = 2
    /\ mem_log[1] # mem_log[2]

C5_Step ==
    (last'.op = "learn" /\ Len(mem_log) < batch_size) =>
        /\ agents' = agents
        /\ memory' = memory
        /\ short_memory' = short_memory
        /\ ~last'.long.ran
        /\ ~last'.short.ran

\* C5: with fewer than batch_size transitions stored, learn(idx) returns
\* (it is enabled for every idx) and changes nothing: no parameter, target,
\* mode flag, store content or counter, and no store is sampled.
C5_LearnNoOpBelowBatchSize ==
    /\ [](Len(mem_log) < batch_size => \A idx \in AgentIds : ENABLED Learn(idx))
    /\ [][C5_Step]_vars

\* C5 witness: learn returned with one transition stored and batch_size 2
C5_Witness ==
    /\ last.op = "learn"
    /\ batch_size = 2
    /\ Len(mem_log) = 1
    /\ ~last.long.ran

\* C6: with batch_size = 1, a learn after exactly one remember passes the
\* short-horizon gate and runs the short-horizon update on the batch made
\* of that single transition.
C6_ShortPassAfterOneRemember ==
    (batch_size = 1 /\ Len(mem_log) = 1 /\ last.op = "learn") =>
        /\ ShortGate(short_memory, batch_size)
        /\ last.short.ran
        /\ last.short.rows = <<mem_log[1]>>

C6_Witness ==
    /\ batch_size = 1
    /\ Len(mem_log) = 1
    /\ last.op = "learn"
    /\ last.short.ran
    /\ last.short.rows[1].others_actions = mem_log[1].others_actions

\* C7 (as claimed): with batch_size > 1 the short-horizon branch of learn
\* never executes.
C7_ShortPassNeverRuns ==
    batch_size > 1 => ~(last.op = "learn" /\ last.short.ran)

\* C7 (amended): with batch_size > 1 the short-horizon branch is skipped only
\* while fewer than batch_size remember calls were made; the counter of the
\* capacity-1 store counts every store, so from the batch_size-th remember on
\* the branch executes, on batch_size copies of the latest transition.
C7_ShortPassRunsOnceCounterReachesBatch ==
    (batch_size > 1 /\ last.op = "learn") =>
        /\ short_memory.mem_cntr = Len(mem_log)
        /\ (last.short.ran <=> Len(mem_log) >= batch_size)
        /\ last.short.ran =>
              \A k \in 1..batch_size :
                  /\ last.short.batch[k] = 0
                  /\ last.short.rows[k] = Latest

C7_Witness ==
    /\ batch_size = 2
    /\ last.op = "learn"
    /\ last.short.ran
    /\ short_memory.mem_cntr = 2
    /\ short_memory.mem_size = 1

Samplings == {i \in 1..Len(last.events) : last.events[i].ev = "sample"}
PassEnd(s) ==
    IF \E i \in Samplings : i > s
    THEN (CHOOSE i \in Samplings : i > s /\ \A j \in Samplings : j > s => i <= j) - 1
    ELSE Len(last.events)
StepsOf(net) ==
    {i \in 1..Len(last.events) :
        last.events[i].ev = "step" /\ last.events[i].net = net}
SoftUpdates == {i \in 1..Len(last.events) : last.events[i].ev = "soft_update"}

\* the target networks of agent idx as they are when the pass opened by
\* sampling s starts
TargetsBefore(s) ==
    IF s = 1
    THEN [target_actor |-> last.before[last.idx].target_actor,
          target_critic |-> last.before[last.idx].target_critic]
    ELSE [target_actor |-> last.events[s - 1].target_actor,
          target_critic |-> last.events[s - 1].target_critic]

C15_PassInOrder(s) ==
    LET E == last.events
        seg == s..PassEnd(s)
        cs == StepsOf("critic") \cap seg
        as == StepsOf("actor") \cap seg
        us == SoftUpdates \cap seg
    IN  /\ Cardinality(cs) = 1
        /\ Cardinality(as) = 1
        /\ us = {PassEnd(s)}
        /\ \A c \in cs : \A a \in as :
              /\ c < a
              /\ a < PassEnd(s)
              /\ \E i \in seg : i < c /\ E[i].ev = "forward"
                                /\ E[i].agent = last.idx
                                /\ E[i].net = "target_critic"
              /\ \A i \in seg :
                    (E[i].ev = "forward" /\ E[i].agent = last.idx
                        /\ E[i].net \in {"target_actor", "target_critic"})
                    => /\ i < c
                       /\ E[i].params = TargetsBefore(s)[E[i].net]
        /\ s > 1 => E[s - 1].ev = "soft_update"

\* C15: in each pass of learn(idx) that runs, the bootstrap target is
\* computed from the target networks as they are before any update of the
\* pass, then the critic steps, then the actor steps, then the targets of
\* agent idx are soft-updated once; the long pass, its soft update included,
\* comes before the sampling of the short pass, and a call in which both
\* passes run makes two critic steps, two actor steps and two soft updates.
C15_LearnPassOrder ==
    last.op = "learn" =>
        /\ Cardinality(Samplings) =
              (IF last.long.ran THEN 1 ELSE 0) + (IF last.short.ran THEN 1 ELSE 0)
        /\ last.long.ran => last.events[1] = [ev |-> "sample", store |-> "memory"]
        /\ \A s \in Samplings :
              /\ C15_PassInOrder(s)
              /\ s > 1 => last.events[s].store = "short_memory"
        /\ (last.long.ran /\ last.short.ran) =>
              /\ Cardinality(StepsOf("critic")) = 2
              /\ Cardinality(StepsOf("actor")) = 2
              /\ Cardinality(SoftUpdates) = 2
        /\ last.long.ran =>
              /\ agents[last.idx].target_critic =
                     last.events[Len(last.events)].target_critic
              /\ agents[last.idx].target_actor =
                     last.events[Len(last.events)].target_actor

\* C15 witness: both passes ran, and the target critic the short pass
\* bootstraps from is the one the long pass left, not the one before the call
C15_Witness ==
    /\ last.op = "learn"
    /\ last.long.ran
    /\ last.short.ran
    /\ \E s \in Samplings :
          /\ s > 1
          /\ TargetsBefore(s).target_critic # last.before[last.idx].target_critic
          /\ TargetsBefore(s).target_critic # agents[last.idx].target_critic

\* C16 (as claimed): in learn(idx) every network that is forwarded only to
\* estimate a value or a target action is in eval mode at that point (the
\* target actor and target critic of agent idx, and the target actor of
\* every other agent, from the first learn call on), at each optimizer step
\* the network updated is in train mode, the critic being back in eval mode
\* at the actor step; choose_action forwards the actor in eval mode and
\* leaves it in train mode.
C16_ModesFollowUse ==
    /\ last.op = "learn" =>
          \A i \in 1..Len(last.events) :
              LET e == last.events[i] IN
              /\ (e.ev = "forward" /\ e.estimate) => e.mode = "eval"
              /\ e.ev = "step" => e.mode = "train"
              /\ (e.ev = "step" /\ e.net = "actor") => e.critic_mode = "eval"
    /\ last.op = "choose_action" =>
          /\ last.forward_mode = "eval"
          /\ agents[last.idx].mode.actor = "train"

C17_Step ==
    /\ last'.op = "learn" =>
          /\ \A j \in AgentIds \ {last'.idx} : \A net \in Nets :
                agents'[j][net] = agents[j][net]
          /\ memory' = memory
          /\ short_memory' = short_memory
    /\ last'.op = "remember" =>
          \A j \in AgentIds : \A net \in Nets : agents'[j][net] = agents[j][net]

\* C17: learn(idx) leaves every parameter of the four networks of every
\* agent j # idx, and both replay stores (contents and counters), as they
\* were; remember changes no network parameter.
C17_LearnWritesOnlyItsAgent == [][C17_Step]_vars

\* C17 witness: a learn call that changed actor, critic and both targets of
\* its own agent
C17_Witness ==
    /\ last.op = "learn"
    /\ last.long.ran
    /\ \A net \in Nets : agents[last.idx][net] # last.before[last.idx][net]
    /\ \A j \in AgentIds \ {last.idx} : agents[j] = last.before[j]

\* the agent on whose behalf a transition was stored
Owner(t) == CHOOSE i \in AgentIds : t = TransitionOf(n_agents, i)

\* C19 (as claimed): whatever the interleaving of remember calls for
\* different agents and learn calls, every transition learn(i) samples from
\* the long or the short store was stored on behalf of agent i, so column k
\* of its others_states holds the observation of the agent whose target
\* actor receives it.
C19_LearnSamplesOwnTransitions ==
    last.op = "learn" =>
        /\ \A pass \in {last.long, last.short} :
              pass.ran => \A r \in DOMAIN pass.rows : Owner(pass.rows[r]) = last.idx
        /\ \A i \in 1..Len(last.events) :
              LET e == last.events[i] IN
              (e.ev = "forward" /\ e.column > 0) =>
                  \A r \in DOMAIN e.inputs : e.inputs[r] = ObsOf(e.agent)

\* C20: memory.mem_cntr and short_memory.mem_cntr are equal, and equal to
\* the number of remember calls made so far; the two gates of learn pass or
\* fail together.
C20_CountersAgree ==
    /\ memory.mem_cntr = Len(mem_log)
    /\ short_memory.mem_cntr = Len(mem_log)
    /\ LongGate(memory, batch_size) <=> ShortGate(short_memory, batch_size)
    /\ last.op = "learn" => (last.long.ran <=> last.short.ran)

\* C20 witness: after a second remember both counters are 2, past the
\* capacity of the short store
C20_Witness ==
    /\ last.op = "remember"
    /\ memory.mem_cntr = 2
    /\ short_memory.mem_cntr = 2
    /\ short_memory.mem_size = 1
    /\ ShortGate(short_memory, batch_size)

(* ========================== claims: agent ============================= *)
Hyperparameters == {"tau", "batch_size", "total_episodes", "noise_std"}

\* C8: update_network_parameters(tau) replaces every target parameter by
\* tau*live + (1-tau)*target and leaves the live parameters alone; tau = 1
\* makes the targets equal to the live networks (the state right after
\* construction), tau = 0 leaves them unchanged, tau = None uses agent.tau.
C8_SoftUpdateBlendsTargets ==
    /\ last.op = "none" =>
          \A i \in AgentIds :
              /\ agents[i].target_actor = agents[i].actor
              /\ agents[i].target_critic = agents[i].critic
    /\ last.op = "update_network_parameters" =>
          LET b == last.before
              a == agents[last.idx]
              tau == IF last.tau_arg.none THEN b.tau ELSE last.tau_arg.tau
          IN  /\ a.actor = b.actor
              /\ a.critic = b.critic
              /\ \A p \in ParamNames :
                    /\ a.target_critic[p] =
                         (tau * b.critic[p] + (TauDen - tau) * b.target_critic[p]) \div TauDen
                    /\ a.target_actor[p] =
                         (tau * b.actor[p] + (TauDen - tau) * b.target_actor[p]) \div TauDen
              /\ tau = TauDen =>
                    a.target_actor = b.actor /\ a.target_critic = b.critic
              /\ tau = 0 =>
                    a.target_actor = b.target_actor /\ a.target_critic = b.target_critic

\* C8 witness: a call with tau = None on an agent whose target actor differs
\* from its actor, leaving a proper blend of the two
C8_Witness ==
    /\ last.op = "update_network_parameters"
    /\ last.tau_arg.none
    /\ last.before.tau \notin {0, TauDen}
    /\ last.before.target_actor # last.before.actor
    /\ agents[last.idx].target_actor # last.before.target_actor
    /\ agents[last.idx].target_actor # agents[last.idx].actor

\* C9: choose_action with evaluation=True adds no noise: for the same actor
\* weights and observation the action is the same for every episode value
\* (and every state of the noise source), and the call changes no network
\* parameter and no hyperparameter of the agent.
C9_EvaluationIsDeterministic ==
    (last.op = "choose_action" /\ last.evaluation) =>
        LET b == last.before
            a == agents[last.idx]
        IN  /\ last.added = 0
            /\ \A e \in Episodes : \A z \in NoiseSamples(b) :
                  choose_action(b, last.observation, e, TRUE, z).action = last.action
            /\ \A f \in Nets \cup Hyperparameters : a[f] = b[f]

\* C9 witness: an evaluation call past the last planned episode whose action
\* is strictly inside (0, 1), where added noise would show
C9_Witness ==
    /\ last.op = "choose_action"
    /\ last.evaluation
    /\ last.episode > last.before.total_episodes
    /\ last.action > 0
    /\ last.action < Unit

\* C10 (as claimed): with evaluation=False the noise term added is the sample
\* times max(0, 1 - episode/total_episodes): the full sample at episode 0,
\* nothing at episode = total_episodes and nothing beyond it.
C10_NoiseDecayClampedAtZero ==
    (last.op = "choose_action" /\ ~last.evaluation) =>
        LET total == last.before.total_episodes
            d == IF total - last.episode < 0 THEN 0 ELSE total - last.episode
        IN  last.added * total = last.noise * d

\* C11: the action choose_action returns lies in [0, 1], with and without
\* evaluation, for every episode value and every noise sample.
C11_ActionWithinUnitRange ==
    last.op = "choose_action" => (last.action >= 0 /\ last.action <= Unit)

\* C11 witness: a noisy call whose unclamped sum falls below 0 and is
\* clamped to 0
C11_Witness ==
    /\ last.op = "choose_action"
    /\ ~last.evaluation
    /\ ActorForward(last.before.actor, last.observation) + last.added < 0
    /\ last.action = 0

(* ======================= claims: checkpoints ========================== *)
\* C13: load_models(tag) reads, for each of actor, target_actor, critic and
\* target_critic, the file keyed by the network's checkpoint directory, its
\* role name and the tag; if any of the four files is missing the call
\* raises, it completes only with all four networks loaded from their files,
\* and no network is ever left with anything but its old parameters or the
\* content of its file.
C13_LoadFailsOnMissingCheckpoint ==
    last.op = "load_models" =>
        LET b == last.before
            a == agents[last.idx]
            File(net) == << IF net \in {"actor", "target_actor"}
                            THEN "models/actor" ELSE "models/critic",
                            net, last.name >>
            missing == {net \in Nets : File(net) \notin DOMAIN files}
        IN  /\ last.raised <=> missing # {}
            /\ ~last.raised => \A net \in Nets : a[net] = files[File(net)]
            /\ \A net \in Nets :
                  \/ a[net] = b[net]
                  \/ File(net) \in DOMAIN files /\ a[net] = files[File(net)]
            /\ \A f \in {"mode"} \cup Hyperparameters : a[f] = b[f]

\* C13 witness: a load that raised with only the critic file missing, after
\* it had replaced the actor by the saved one
C13_Witness ==
    /\ last.op = "load_models"
    /\ last.raised
    /\ <<"models/critic", "critic", last.name>> \notin DOMAIN files
    /\ <<"models/actor", "actor", last.name>> \in DOMAIN files
    /\ <<"models/critic", "target_critic", last.name>> \in DOMAIN files
    /\ agents[last.idx].actor # last.before.actor

(* ===================== claims: column routing ========================= *)
\* C12: with N agents, column k (0-based) of the sampled others_states is
\* fed to the target actor of agent k if k < idx and of agent k+1 otherwise
\* (the k-th agent of the ascending list without idx), the outputs are
\* concatenated in column order, the critic-target and the actor-loss
\* computation use the same mapping, and no column goes to agent idx.
C12_ColumnsRoutedInAscendingOrder ==
    last.op = "learn_columns" =>
        LET N == last.num_agents
            idx == last.idx
            out == last.out
        IN  /\ Len(out.target_actions_list) = N - 1
            /\ \A k \in 0..(N - 2) :
                  LET ta == out.target_actions_list[k + 1]
                  IN  /\ ta.agent = IF k < idx THEN k ELSE k + 1
                      /\ ta.agent # idx
                      /\ ta.agent \in 0..(N - 1)
                      /\ ta.column = k + 1
                      /\ ta.input = last.row.others_states[k + 1]
            /\ \A k \in 0..(N - 2) : \A l \in 0..(N - 2) :
                  k < l => out.target_actions_list[k + 1].agent
                             < out.target_actions_list[l + 1].agent
            /\ ~out.raised =>
                  /\ out.mus_list = out.target_actions_list
                  /\ \A k \in 1..(N - 1) :
                        /\ out.others_target_actions[k] = out.target_actions_list[k]
                        /\ out.others_mus[k] = out.mus_list[k]

\* C12 witness: three agents and idx = 1, so that column 0 goes to agent 0
\* and column 1 skips to agent 2
C12_Witness ==
    /\ last.op = "learn_columns"
    /\ last.num_agents = 3
    /\ last.idx = 1
    /\ ~last.out.raised
    /\ last.out.others_target_actions[1].agent = 0
    /\ last.out.others_mus[2].agent = 2

\* C18 (as claimed): with flag=True and num_tiles = t, learn widens
\* others_states, others_actions and the others' target actions to the
\* original n_agents-1 columns in order followed by t copies of column 0; the
\* critic input is 2*(n_agents + t) wide, which is the width of a critic
\* constructed with tl_flag=True and extra_players = e exactly when t = e.
C18_TilingAppendsCopiesOfColumnZero ==
    (last.op = "learn_columns" /\ last.flag) =>
        LET N == last.num_agents
            t == last.num_tiles
            out == last.out
            Widened(wide, orig) ==
                /\ Len(wide) = N - 1 + t
                /\ \A k \in 1..(N - 1) : wide[k] = orig[k]
                /\ \A k \in N..(N - 1 + t) : wide[k] = orig[1]
        IN  /\ ~out.raised
            /\ Widened(out.others_states, last.row.others_states)
            /\ Widened(out.others_actions, last.row.others_actions)
            /\ Widened(out.others_target_actions,
                       OthersTargetActions(N, last.idx, last.row.others_states))
            /\ Widened(out.others_mus,
                       OthersTargetActions(N, last.idx, last.row.others_states))
            /\ out.target_width = 2 * (N + t)
            /\ out.critic_width = 2 * (N + t)
            /\ out.loss_width = 2 * (N + t)
            /\ \A e \in 0..(MaxTiles + 1) :
                  out.critic_width = shape_of_input(N, TRUE, e) <=> t = e

====
